---- MODULE Spec2Model ----
(***************************************************************************)
(* The call orchestration of langchain_decorators.prompt_decorator:        *)
(* llm_prompt's closures prepare_call_args, get_retry_parse_call_args and  *)
(* process_results, the two wrappers (wrapper, async_wrapper) and          *)
(* _generate_output_with_function_call.                                    *)
(*                                                                         *)
(* One decoration (cfg) is applied to a synchronous and to an asynchronous *)
(* function; both decorated functions are called with the same request     *)
(* (req) and the external collaborators (chain executor, output parser,    *)
(* recovery completion) answer both with the same responses (stub).        *)
(* Python values are modelled by strings: "None", "True", "False", ...     *)
(***************************************************************************)
EXTENDS Integers, Sequences, FiniteSets, TLC

\* ------------------------------------------------------------------ bounds
\* Number of plain template inputs that templates may declare.
NumInputs == 2
\* Largest number of positional arguments of a call.
MaxPositional == 2
\* Largest length the caller's callbacks list may reach before the caller
\* stops re-invoking the function.
MaxCallbacks == 3

\* ------------------------------------------------------- names and values
InputNames == <<"a", "b", "c", "d">>
Inputs == {InputNames[i] : i \in 1..NumInputs}

\* llm_prompt's default for format_instructions_parameter_key.
FormatInstructionsKey == "FORMAT_INSTRUCTIONS"
\* memory.memory_key of the memory object a caller may pass.
MemoryKey == "history"

\* Python truthiness of a modelled value.
Truthy(v) == v \notin {"None", "False", "empty", ""}
\* isinstance(v, bool)
IsBool(v) == v \in {"True", "False"}

Modes == {"sync", "async"}
IsAsync(m) == m = "async"

\* ------------------------------------------------------------ dictionaries
\* A Python dict is a function from the set of its keys to values.
EmptyDict == [k \in {} |-> ""]
Has(d, k) == k \in DOMAIN d
Get(d, k) == IF k \in DOMAIN d THEN d[k] ELSE "None"
Del(d, k) == [x \in (DOMAIN d) \ {k} |-> d[x]]
Put(d, k, v) == [x \in (DOMAIN d) \cup {k} |-> IF x = k THEN v ELSE d[x]]
\* {**lo, **hi}
Merge(lo, hi) ==
    [x \in (DOMAIN lo) \cup (DOMAIN hi) |-> IF x \in DOMAIN hi THEN hi[x] ELSE lo[x]]

\* ------------------------------------------------------------------ errors
\* kind: the exception; site: the statement that raised it; keys: the keys
\* its message lists; original, needs_prompt: the fields of an
\* OutputParserExceptionWithOriginal.
NoErr ==
    [kind |-> "none", site |-> "none", keys |-> {}, original |-> "", needs_prompt |-> FALSE]
Err(kind, site, keys) ==
    [kind |-> kind, site |-> site, keys |-> keys, original |-> "", needs_prompt |-> FALSE]

\* --------------------------------------------------------- chain binding
NoChain ==
    [variant |-> "unbuilt", llm |-> "None", functions |-> "none",
     llm_selector |-> "None", capture_stream |-> "None",
     llm_selector_rule_key |-> "None", memory |-> "None", output_parser |-> "none"]

NoCallArgs == [inputs |-> EmptyDict, callbacks |-> << >>]

\* ------------------------------------------------------------- decoration
\* decorator(): the capture setting the closures see (_capture_stream).
DecoCaptureStream(cfg, is_async) ==
    LET c == IF cfg.prompt_type.truthy
               THEN (IF cfg.capture_stream = "None" THEN cfg.prompt_type.capture_stream
                                                    ELSE cfg.capture_stream)
               ELSE cfg.capture_stream
    IN IF Truthy(c) /\ ~is_async THEN "False" ELSE c

\* ------------------------------------------------------ prepare_call_args
\* The reserved-keyword check: raises ValueError when it yields TRUE.
\* capture_stream is the closure's setting, kwargs the call's keywords.
CaptureStreamRejected(capture_stream, kwargs) ==
    Has(kwargs, "capture_stream") /\ ~IsBool(capture_stream)

\* A capture setting that survives outside a streaming scope.
ScopedCaptureIgnoresScope(capture_stream, in_streaming_context) == capture_stream

\* Lines 144-146: outside a StreamingContext a truthy capture setting
\* becomes False.
ScopedCapture(capture_stream, in_streaming_context) ==
    IF Truthy(capture_stream) /\ ~in_streaming_context THEN "False" ELSE capture_stream

\* A choice of model that never looks at the capture setting.
SelectorPathModelIgnoresCapture(capture_stream, llm_selector, default_streaming_llm) ==
    "default_llm"

\* Lines 155-161: prompt_llm when no model is fixed.
SelectorPathModel(capture_stream, llm_selector, default_streaming_llm) ==
    IF Truthy(capture_stream) /\ ~Truthy(llm_selector)
      THEN (IF Truthy(default_streaming_llm) THEN default_streaming_llm
                                             ELSE "default_llm")
      ELSE "default_llm"

\* The per-call rule key is taken (and removed from kwargs) only on the
\* selector path and only when its value is truthy.
RuleKeyTaken(llm, kwargs) ==
    ~Truthy(llm) /\ Truthy(Get(kwargs, "llm_selector_rule_key"))

\* The object the missing inputs are read from, if any.
HasInputSource(args) == Len(args) = 1 /\ args[1].has_dict

\* A check that lets a second positional argument pass.
TooManyPositionalAboveTwo(args) == Len(args) > 2

\* Raises the usage error of line 187 when it yields TRUE.
TooManyPositional(args) == Len(args) > 1

other_supported_kwargs == {"stop", "callbacks", "function_call"}

\* A validation that forgets the supported keywords.
UnexpectedInputsOnlyDeclared(kwargs, input_variables) ==
    {key \in DOMAIN kwargs : key \notin input_variables}

UnexpectedInputs(kwargs, input_variables) ==
    {key \in DOMAIN kwargs :
        key \notin input_variables /\ key \notin other_supported_kwargs}

\* missing_inputs after the two exemptions.
MissingInputs(kwargs, input_variables, memory) ==
    LET missing == {key \in input_variables : key \notin DOMAIN kwargs}
        noFI == missing \ {FormatInstructionsKey}
    IN IF Truthy(memory) THEN noFI \ {MemoryKey} ELSE noFI

\* Position of a name in the template's input_variables list.
NameOrder == InputNames \o <<FormatInstructionsKey, MemoryKey>>
IndexOf(name) == CHOOSE i \in 1..Len(NameOrder) : NameOrder[i] = name
FirstOf(names) ==
    CHOOSE n \in names : \A o \in names : IndexOf(n) <= IndexOf(o)

\* A choice that looks at the parser before the caller's functions.
ChainVariantParserFirst(functions, output_parser) ==
    IF output_parser = "functions"
      THEN [variant |-> "functions", functions |-> "parser"]
    ELSE IF Truthy(functions) THEN [variant |-> "functions", functions |-> "caller"]
    ELSE [variant |-> "plain", functions |-> "none"]

\* The chain class and its functions argument.
ChainVariant(functions, output_parser) ==
    IF Truthy(functions) THEN [variant |-> "functions", functions |-> "caller"]
    ELSE IF output_parser = "functions"
           THEN [variant |-> "functions", functions |-> "parser"]
           ELSE [variant |-> "plain", functions |-> "none"]

\* prepare_call_args(*args, **kwargs) of the function decorated with cfg,
\* called with req while the caller's callbacks list holds callerList.
\* Yields the error raised (if any), the chain built, call_args and the
\* caller's list as the call leaves it.
prepare_call_args(cfg, is_async, req, callerList) ==
    LET deco == DecoCaptureStream(cfg, is_async)
        kw0 == req.kwargs
        \* lines 136-142
        captureErr == CaptureStreamRejected(deco, kw0)
        capture1 == IF Has(kw0, "capture_stream") THEN kw0["capture_stream"] ELSE deco
        kw1 == Del(kw0, "capture_stream")
        \* lines 144-146
        capture == ScopedCapture(capture1, req.in_streaming_context)
        \* lines 149-178
        llmFixed == Truthy(cfg.llm)
        llm_selector ==
            IF llmFixed THEN "None"
            ELSE IF cfg.prompt_type.truthy /\ Truthy(cfg.prompt_type.llm_selector)
                   THEN cfg.prompt_type.llm_selector
                   ELSE cfg.global_llm_selector
        prompt_llm ==
            IF llmFixed THEN cfg.llm
            ELSE SelectorPathModel(capture, llm_selector, cfg.default_streaming_llm)
        ruleTaken == RuleKeyTaken(cfg.llm, kw1)
        \* the local llm_selector_rule_key; never assigned when llm is fixed
        rule_key == IF llmFixed THEN "unbound"
                    ELSE IF ruleTaken THEN kw1["llm_selector_rule_key"]
                                      ELSE cfg.llm_selector_rule_key
        kw2 == IF ruleTaken THEN Del(kw1, "llm_selector_rule_key") ELSE kw1
        \* lines 181-187
        hasSource == HasInputSource(req.args)
        positionalErr == TooManyPositional(req.args)
        \* lines 190-199
        defaults == [k \in cfg.default_values |-> "default"]
        kw3 == IF cfg.default_values # {} THEN Merge(defaults, kw2) ELSE kw2
        \* lines 201-207
        passed == Has(kw3, "callbacks")
        callbacks0 == IF passed THEN callerList ELSE << >>
        kw4 == Del(kw3, "callbacks")
        callbacks == IF Truthy(capture)
                       THEN Append(callbacks0, "StreamingContextCallback")
                       ELSE callbacks0
        \* lines 210-218
        memory == Get(kw4, "memory")
        functions == Get(kw4, "functions")
        kw5 == Del(Del(kw4, "memory"), "functions")
        \* lines 221-228
        cv == ChainVariant(functions, cfg.output_parser)
        unboundErr == rule_key = "unbound"
        kw6 == IF cv.functions = "parser"
                 THEN Put(kw5, "function_call", "parser_function") ELSE kw5
        llmChain ==
            [variant |-> cv.variant, llm |-> prompt_llm, functions |-> cv.functions,
             llm_selector |-> llm_selector, capture_stream |-> capture,
             llm_selector_rule_key |-> rule_key, memory |-> memory,
             output_parser |-> cfg.output_parser]
        \* lines 229-232
        unexpected == UnexpectedInputs(kw6, cfg.input_variables)
        \* lines 234-239
        kw7 == IF FormatInstructionsKey \in cfg.input_variables
                  /\ ~Has(kw6, FormatInstructionsKey)
                 THEN Put(kw6, FormatInstructionsKey, "None") ELSE kw6
        missing == MissingInputs(kw6, cfg.input_variables, memory)
        \* lines 241-254
        attrs == IF hasSource THEN req.args[1].attrs ELSE {}
        noAttr == missing \ attrs
        kw8 == [k \in (DOMAIN kw7) \cup missing |->
                    IF k \in DOMAIN kw7 THEN kw7[k] ELSE "attr"]
        \* lines 257-259
        kw9 == IF Truthy(cfg.stop_tokens) THEN Put(kw8, "stop", cfg.stop_tokens) ELSE kw8
        err ==
            IF captureErr THEN Err("InvalidArguments", "capture_stream", {})
            ELSE IF positionalErr THEN Err("InvalidArguments", "positional", {})
            ELSE IF unboundErr THEN Err("UnboundLocalError", "llm_selector_rule_key", {})
            ELSE IF unexpected # {} THEN Err("UnexpectedInput", "unexpected_inputs", unexpected)
            ELSE IF missing # {} /\ ~hasSource
                   THEN Err("MissingInput", "missing_inputs", missing)
            ELSE IF noAttr # {} THEN Err("MissingInput", "getattr", {FirstOf(noAttr)})
            ELSE NoErr
        \* the append of line 207 is made on the caller's own list, and
        \* before the errors of lines 222-254
        reached207 == ~captureErr /\ ~positionalErr
        built == reached207 /\ ~unboundErr
    IN [err |-> err,
        llmChain |-> IF built THEN llmChain ELSE NoChain,
        call_args |-> IF err = NoErr
                        THEN [inputs |-> kw9, callbacks |-> callbacks]
                        ELSE NoCallArgs,
        callerList |-> IF reached207 /\ passed THEN callbacks ELSE callerList]

\* ------------------------------------------------------ the collaborators
\* What the external collaborators answer in one invocation; "unset" until
\* a wrapper asks.  chain: the chain executor; parse: the output parser on
\* the chain's output; render: prompt.format; format_instructions: the
\* parser's get_format_instructions; recovery: the recovery completion;
\* reparse: the output parser on the recovery output.
StubNames == {"chain", "parse", "render", "format_instructions", "recovery", "reparse"}
NoStub == [n \in StubNames |-> "unset"]

ChainAnswers(variant) ==
    IF variant = "plain"
      THEN {"ModelError", "empty_text", "text"}
      ELSE {"ModelError", "empty_text", "text", "no_call",
            "call_tool", "call_sync", "call_async", "call_other"}
ParseAnswers == {"ok", "OutputParserException", "WithOriginal", "WithOriginalNeedsPrompt"}
RenderAnswers == {"prompt_text", "KeyError"}
FormatInstructionsAnswers == {"instructions", "None", ""}
RecoveryAnswers == {"recovered_text", "ModelError"}
ReparseAnswers == {"ok", "OutputParserException", "WithOriginal"}

\* The answers still open for a collaborator: the one already given in this
\* invocation, or any of dom.
Answers(st, name, dom) == IF st[name] = "unset" THEN dom ELSE {st[name]}

\* result_data of the chain for an answer: the exception it raises, the text
\* under output_key, function_call_info ("absent": no such key) and the
\* shape of result_data["function"].
ChainResponse(c) ==
    CASE c = "ModelError" ->
           [raises |-> "ModelError", text |-> "", fci |-> "absent", function |-> "absent"]
      [] c = "empty_text" ->
           [raises |-> "none", text |-> "", fci |-> "absent", function |-> "absent"]
      [] c = "text" ->
           [raises |-> "none", text |-> "text", fci |-> "absent", function |-> "absent"]
      [] c = "no_call" ->
           [raises |-> "none", text |-> "text", fci |-> "None", function |-> "None"]
      [] c = "call_tool" ->
           [raises |-> "none", text |-> "", fci |-> "call", function |-> "tool"]
      [] c = "call_sync" ->
           [raises |-> "none", text |-> "", fci |-> "call", function |-> "sync"]
      [] c = "call_async" ->
           [raises |-> "none", text |-> "", fci |-> "call", function |-> "async"]
      [] OTHER ->
           [raises |-> "none", text |-> "", fci |-> "call", function |-> "other"]

\* ------------------------------------------------------------------ values
NoValue == [src |-> "none", text |-> "", parsed |-> FALSE]
\* The chain's output text as it is.
Raw(text) == [src |-> "chain", text |-> text, parsed |-> FALSE]
\* What the output parser makes of a text of a given origin.
Parsed(src, text) == [src |-> src, text |-> text, parsed |-> TRUE]

\* The exception parser.parse raises for a non-ok answer.
ParseError(answer, site, text) ==
    [kind |-> IF answer = "OutputParserException"
                THEN "OutputParserException"
                ELSE "OutputParserExceptionWithOriginal",
     site |-> site, keys |-> {}, original |-> text,
     needs_prompt |-> (answer = "WithOriginalNeedsPrompt")]

\* except OutputParserException
IsOutputParserException(e) ==
    e.kind \in {"OutputParserException", "OutputParserExceptionWithOriginal"}
\* isinstance(e, OutputParserExceptionWithOriginal)
IsWithOriginal(e) == e.kind = "OutputParserExceptionWithOriginal"

\* --------------------------------------------------------- process_results
\* Whether process_results calls parser.parse on this result_data.
ParserCalled(output_parser, resp) ==
    \/ output_parser = "functions" /\ resp.fci = "call"
    \/ output_parser = "plain" /\ Truthy(resp.text)

\* process_results(llmChain, result_data, result, is_function_call) with
\* the parser answering p: the exception raised, the result, and whether
\* result_data still holds function_call_info afterwards.
process_results(output_parser, resp, p) ==
    LET keyPresent == resp.fci # "absent"
    IN
    IF output_parser = "functions"
      THEN IF resp.fci = "absent"
             THEN [err |-> Err("KeyError", "process_results", {"function_call_info"}),
                   result |-> NoValue, has_fci |-> keyPresent]
           ELSE IF resp.fci = "None"
             THEN [err |-> Err("TypeError", "process_results", {"function_call_info"}),
                   result |-> NoValue, has_fci |-> keyPresent]
           ELSE IF p = "ok"
             THEN [err |-> NoErr, result |-> Parsed("arguments", "arguments"),
                   has_fci |-> FALSE]
             ELSE [err |-> ParseError(p, "parse", "arguments"),
                   result |-> NoValue, has_fci |-> keyPresent]
    ELSE IF output_parser = "plain" /\ Truthy(resp.text)
      THEN IF p = "ok"
             THEN [err |-> NoErr, result |-> Parsed("chain", resp.text),
                   has_fci |-> keyPresent]
             ELSE [err |-> ParseError(p, "parse", resp.text),
                   result |-> NoValue, has_fci |-> keyPresent]
    ELSE [err |-> NoErr, result |-> Raw(resp.text), has_fci |-> keyPresent]

\* ------------------------------------------------------------ the outcome
NoOut ==
    [status |-> "none", error |-> NoErr, type |-> "none", output |-> NoValue,
     function |-> "None", function_async |-> "None", function_name |-> "None"]
Raise(e) == [NoOut EXCEPT !.status = "raise", !.error = e]
ReturnPlain(v) == [NoOut EXCEPT !.status = "return", !.type = "plain", !.output = v]

\* A packaging that keeps an asynchronous callable in the synchronous slot
\* too.
generate_output_fills_both_slots(result, resp) ==
    LET fc == [NoOut EXCEPT !.status = "return", !.type = "OutputWithFunctionCall",
                            !.output = result]
    IN
    IF resp.function = "absent"
      THEN Raise(Err("KeyError", "generate_output", {"function"}))
    ELSE IF Truthy(resp.fci)
      THEN IF resp.function = "tool"
             THEN [fc EXCEPT !.function = "_sync_function",
                             !.function_async = "_async_function",
                             !.function_name = "name"]
           ELSE IF resp.function = "async"
             THEN [fc EXCEPT !.function = "_function", !.function_async = "_function",
                             !.function_name = "name"]
           ELSE IF resp.function = "sync"
             THEN [fc EXCEPT !.function = "_function", !.function_name = "name"]
           ELSE Raise(Err("TypeError", "generate_output", {"function"}))
    ELSE fc

\* A packaging that accepts every function reference.
generate_output_accepts_any_reference(result, resp) ==
    LET fc == [NoOut EXCEPT !.status = "return", !.type = "OutputWithFunctionCall",
                            !.output = result]
    IN
    IF resp.function = "absent"
      THEN Raise(Err("KeyError", "generate_output", {"function"}))
    ELSE IF Truthy(resp.fci)
      THEN IF resp.function = "tool"
             THEN [fc EXCEPT !.function = "_sync_function",
                             !.function_async = "_async_function",
                             !.function_name = "name"]
           ELSE IF resp.function = "async"
             THEN [fc EXCEPT !.function_async = "_function", !.function_name = "name"]
           ELSE IF resp.function = "sync"
             THEN [fc EXCEPT !.function = "_function", !.function_name = "name"]
           ELSE [fc EXCEPT !.function_name = "name"]
    ELSE fc

\* _generate_output_with_function_call(result, result_data, ...)
generate_output_with_function_call(result, resp) ==
    LET fc == [NoOut EXCEPT !.status = "return", !.type = "OutputWithFunctionCall",
                            !.output = result]
    IN
    IF resp.function = "absent"
      THEN Raise(Err("KeyError", "generate_output", {"function"}))
    ELSE IF Truthy(resp.fci)
      THEN IF resp.function = "tool"
             THEN [fc EXCEPT !.function = "_sync_function",
                             !.function_async = "_async_function",
                             !.function_name = "name"]
           ELSE IF resp.function = "async"
             THEN [fc EXCEPT !.function_async = "_function", !.function_name = "name"]
           ELSE IF resp.function = "sync"
             THEN [fc EXCEPT !.function = "_function", !.function_name = "name"]
           ELSE Raise(Err("TypeError", "generate_output", {"function"}))
    ELSE fc

\* -------------------------------------------- get_retry_parse_call_args
\* call_kwargs not built; format_keywords: the keyword names prompt.format
\* was called with for original_prompt (none when it was not called).
NoKwargs ==
    [built |-> FALSE, original_prompt |-> "", original |-> "",
     format_instructions |-> "None", format_keywords |-> {}]

\* The keyword names of llmChain.prompt.format(**chain_args): the keys of
\* the call_args dictionary of line 259.
FormatKeywords(chain_args) == {"inputs", "return_only_outputs", "callbacks"}

\* A check that only catches absent instructions.
NoFormatInstructionsOnlyNone(format_instructions) == format_instructions = "None"

\* Line 278: not format_instructions.
NoFormatInstructions(format_instructions) == ~Truthy(format_instructions)

\* A step of a run: the error raised so far, the collaborators called in
\* order, their answers, and the recovery call's arguments.
Step(err, tr, st, kw) == [err |-> err, trace |-> tr, st |-> st, call_kwargs |-> kw]

\* get_retry_parse_call_args(prompt_template, exception, get_original_prompt)
\* after the calls in tr, get_original_prompt being the lambda of line 316
\* over chain_args, for every answer of prompt.format and of
\* get_format_instructions: the error raised or call_kwargs.
get_retry_parse_call_args(e, chain_args, tr, st) ==
    LET rendered ==
            IF e.needs_prompt
              THEN {Step(IF r = "KeyError" THEN Err("KeyError", "render", {}) ELSE NoErr,
                         Append(tr, "render"), [st EXCEPT !["render"] = r],
                         [NoKwargs EXCEPT !.original_prompt = r,
                                          !.format_keywords = FormatKeywords(chain_args)]) :
                      r \in Answers(st, "render", RenderAnswers)}
              ELSE {Step(NoErr, tr, st, NoKwargs)}
        instructed(s) ==
            {Step(IF NoFormatInstructions(f)
                    THEN Err("Exception", "get_format_instructions", {}) ELSE NoErr,
                  Append(s.trace, "format_instructions"),
                  [s.st EXCEPT !["format_instructions"] = f],
                  IF NoFormatInstructions(f)
                    THEN NoKwargs
                    ELSE [built |-> TRUE, original_prompt |-> s.call_kwargs.original_prompt,
                          original |-> e.original, format_instructions |-> f,
                          format_keywords |-> s.call_kwargs.format_keywords]) :
               f \in Answers(s.st, "format_instructions", FormatInstructionsAnswers)}
    IN UNION {IF s.err # NoErr THEN {[s EXCEPT !.call_kwargs = NoKwargs]}
                               ELSE instructed(s) : s \in rendered}

\* ------------------------------------------------------------ the wrappers
\* A finished run of a wrapper.
Run(o, tr, st, kw) == [out |-> o, trace |-> tr, st |-> st, call_kwargs |-> kw]

\* A recovery whose second parse failure is swallowed.
ParseRecoverySwallows(rec, q) ==
    IF q = "ok" THEN ReturnPlain(Parsed("recovery", rec)) ELSE ReturnPlain(NoValue)

\* A recovery whose parsed output is packaged as a function-call result.
ParseRecoveryPackages(rec, q) ==
    IF q = "ok"
      THEN [NoOut EXCEPT !.status = "return", !.type = "OutputWithFunctionCall",
                         !.output = Parsed("recovery", rec)]
      ELSE Raise(ParseError(q, "reparse", rec))

\* parsed = prompt_template.output_parser.parse(result); return parsed
ParseRecovery(rec, q) ==
    IF q = "ok" THEN ReturnPlain(Parsed("recovery", rec))
                ELSE Raise(ParseError(q, "reparse", rec))

\* A handler that forgets the retry setting.
wrapper_retries_always(retry_on_output_parsing_error, e) == IsWithOriginal(e)

\* wrapper, line 314: the handler's test.
wrapper_retries(retry_on_output_parsing_error, e) ==
    retry_on_output_parsing_error /\ IsWithOriginal(e)

\* wrapper, lines 326-328.
wrapper_return(pr, resp) ==
    IF pr.has_fci THEN generate_output_with_function_call(pr.result, resp)
                  ELSE ReturnPlain(pr.result)

\* wrapper, lines 315-321: the recovery, for every answer of the
\* collaborators it calls.
wrapper_recovery(e, chain_args, tr, st) ==
    UNION {
      IF g.err # NoErr THEN {Run(Raise(g.err), g.trace, g.st, g.call_kwargs)}
      ELSE UNION {
        IF rec = "ModelError"
          THEN {Run(Raise(Err("ModelError", "recovery", {})),
                    Append(g.trace, "recovery"),
                    [g.st EXCEPT !["recovery"] = rec], g.call_kwargs)}
          ELSE {Run(ParseRecovery(rec, q),
                    g.trace \o <<"recovery", "reparse">>,
                    [g.st EXCEPT !["recovery"] = rec, !["reparse"] = q],
                    g.call_kwargs) :
                  q \in Answers(g.st, "reparse", ReparseAnswers)}
        : rec \in Answers(g.st, "recovery", RecoveryAnswers)}
      : g \in get_retry_parse_call_args(e, chain_args, tr, st)}

\* wrapper, lines 305-328: the runs of the try statement and what follows
\* it, once prepare_call_args has returned llmChain and chain_args.
wrapper_runs(retry_on_output_parsing_error, llmChain, chain_args, st) ==
    UNION {
      LET resp == ChainResponse(c)
          st1 == [st EXCEPT !["chain"] = c]
      IN
      IF resp.raises # "none"
        THEN {Run(Raise(Err(resp.raises, "chain", {})), <<"chain">>, st1, NoKwargs)}
        ELSE UNION {
          LET pr == process_results(llmChain.output_parser, resp, p)
              called == ParserCalled(llmChain.output_parser, resp)
              tr == IF called THEN <<"chain", "parse">> ELSE <<"chain">>
              st2 == IF called THEN [st1 EXCEPT !["parse"] = p] ELSE st1
          IN
          IF pr.err = NoErr THEN {Run(wrapper_return(pr, resp), tr, st2, NoKwargs)}
          ELSE IF IsOutputParserException(pr.err)
                  /\ wrapper_retries(retry_on_output_parsing_error, pr.err)
            THEN wrapper_recovery(pr.err, chain_args, tr, st2)
          ELSE {Run(Raise(pr.err), tr, st2, NoKwargs)}
          : p \in IF ParserCalled(llmChain.output_parser, resp)
                    THEN Answers(st1, "parse", ParseAnswers) ELSE {"unset"}}
      : c \in Answers(st, "chain", ChainAnswers(llmChain.variant))}

\* A handler that retries on every parser exception.
async_wrapper_retries_any(retry_on_output_parsing_error, e) ==
    retry_on_output_parsing_error /\ IsOutputParserException(e)

\* async_wrapper, line 352: the handler's test.
async_wrapper_retries(retry_on_output_parsing_error, e) ==
    retry_on_output_parsing_error /\ IsWithOriginal(e)

\* An end of the wrapper without the function-call packaging.
async_wrapper_return_plain(pr, resp) == ReturnPlain(pr.result)

\* async_wrapper, lines 364-366.
async_wrapper_return(pr, resp) ==
    IF pr.has_fci THEN generate_output_with_function_call(pr.result, resp)
                  ELSE ReturnPlain(pr.result)

\* ------------------------------------------------------------------ state
VARIABLES
    cfg,          \* the decoration: llm_prompt's arguments, the template, the settings
    req,          \* the call: positional objects, keywords, the streaming scope
    stub,         \* the collaborators' answers in this invocation
    pc,           \* per mode: "ready", "await_chain", "await_retry", "done"
    prepared,     \* per mode: "pending", "ok" or "failed" (prepare_call_args)
    llmChain,     \* per mode: the chain prepare_call_args built
    call_args,    \* per mode: the call_args prepare_call_args returned
    call_kwargs,  \* per mode: the recovery call's arguments
    trace,        \* per mode: the collaborators called, in order
    out,          \* per mode: what the invocation returned or raised
    callerList    \* per mode: the caller's callbacks list

vars == <<cfg, req, stub, pc, prepared, llmChain, call_args, call_kwargs, trace, out,
          callerList>>

\* The list the caller owns and passes as callbacks.
InitialCallerList == <<"handler">>

\* The state before an invocation of both decorated functions.
Fresh ==
    /\ stub = NoStub
    /\ pc = [m \in Modes |-> "ready"]
    /\ prepared = [m \in Modes |-> "pending"]
    /\ llmChain = [m \in Modes |-> NoChain]
    /\ call_args = [m \in Modes |-> NoCallArgs]
    /\ call_kwargs = [m \in Modes |-> NoKwargs]
    /\ trace = [m \in Modes |-> << >>]
    /\ out = [m \in Modes |-> NoOut]

InitWith(Cfgs, Reqs) ==
    /\ cfg \in Cfgs
    /\ req \in Reqs
    /\ Fresh
    /\ callerList = [m \in Modes |-> InitialCallerList]

\* A wrapper that lets only the errors of the call's shape through.
AssemblyRaisedOnlyInvalidArguments(prep) == prep.err.kind = "InvalidArguments"

\* Lines 303 and 341: prepare_call_args is called before the try statement,
\* so an exception it raises leaves the wrapper at once.
AssemblyRaised(prep) == prep.err # NoErr

\* What prepare_call_args leaves behind in mode m.
Prepared(m, prep) ==
    /\ prepared' = [prepared EXCEPT ![m] = IF prep.err = NoErr THEN "ok" ELSE "failed"]
    /\ llmChain' = [llmChain EXCEPT ![m] = prep.llmChain]
    /\ call_args' = [call_args EXCEPT ![m] = prep.call_args]
    /\ callerList' = [callerList EXCEPT ![m] = prep.callerList]

\* The wrapper of mode m moves to newpc.
Moves(m, newpc, o, tr, st, kw) ==
    /\ pc' = [pc EXCEPT ![m] = newpc]
    /\ out' = [out EXCEPT ![m] = o]
    /\ trace' = [trace EXCEPT ![m] = tr]
    /\ stub' = st
    /\ call_kwargs' = [call_kwargs EXCEPT ![m] = kw]

\* wrapper(*args, **kwargs), lines 300-328: the whole blocking call.
wrapper ==
    /\ pc["sync"] = "ready"
    /\ LET prep == prepare_call_args(cfg, FALSE, req, callerList["sync"])
       IN /\ Prepared("sync", prep)
          /\ IF AssemblyRaised(prep)
               THEN Moves("sync", "done", Raise(prep.err), << >>, stub, NoKwargs)
               ELSE \E run \in wrapper_runs(cfg.retry_on_output_parsing_error,
                                            prep.llmChain, prep.call_args, stub) :
                        Moves("sync", "done", run.out, run.trace, run.st, run.call_kwargs)
    /\ UNCHANGED <<cfg, req>>

\* async_wrapper(*args, **kwargs), lines 337-345: up to the suspension at
\* llmChain.acall.
async_wrapper ==
    /\ pc["async"] = "ready"
    /\ LET prep == prepare_call_args(cfg, TRUE, req, callerList["async"])
       IN /\ Prepared("async", prep)
          /\ IF AssemblyRaised(prep)
               THEN Moves("async", "done", Raise(prep.err), << >>, stub, NoKwargs)
               ELSE Moves("async", "await_chain", NoOut, <<"chain">>, stub, NoKwargs)
    /\ UNCHANGED <<cfg, req>>

\* async_wrapper, lines 345-366: resumed by the chain's result, up to the
\* return, the raise or the suspension at retryChain.apredict.
async_chain_returns ==
    /\ pc["async"] = "await_chain"
    /\ \E c \in Answers(stub, "chain", ChainAnswers(llmChain["async"].variant)) :
         LET resp == ChainResponse(c)
             st1 == [stub EXCEPT !["chain"] = c]
             parser == llmChain["async"].output_parser
             called == ParserCalled(parser, resp)
             tr == IF called THEN <<"chain", "parse">> ELSE <<"chain">>
         IN
         IF resp.raises # "none"
           THEN Moves("async", "done", Raise(Err(resp.raises, "chain", {})),
                      <<"chain">>, st1, NoKwargs)
           ELSE \E p \in IF called THEN Answers(st1, "parse", ParseAnswers) ELSE {"unset"} :
             LET pr == process_results(parser, resp, p)
                 st2 == IF called THEN [st1 EXCEPT !["parse"] = p] ELSE st1
             IN
             IF pr.err = NoErr
               THEN Moves("async", "done", async_wrapper_return(pr, resp), tr, st2, NoKwargs)
             ELSE IF IsOutputParserException(pr.err)
                     /\ async_wrapper_retries(cfg.retry_on_output_parsing_error, pr.err)
               THEN \E g \in get_retry_parse_call_args(pr.err, call_args["async"],
                                                        tr, st2) :
                      IF g.err # NoErr
                        THEN Moves("async", "done", Raise(g.err), g.trace, g.st,
                                   g.call_kwargs)
                        ELSE Moves("async", "await_retry", NoOut,
                                   Append(g.trace, "recovery"), g.st, g.call_kwargs)
             ELSE Moves("async", "done", Raise(pr.err), tr, st2, NoKwargs)
    /\ UNCHANGED <<cfg, req, prepared, llmChain, call_args, callerList>>

\* async_wrapper, lines 355-359: resumed by the recovery completion.
async_recovery_returns ==
    /\ pc["async"] = "await_retry"
    /\ \E rec \in Answers(stub, "recovery", RecoveryAnswers) :
         LET st1 == [stub EXCEPT !["recovery"] = rec]
         IN
         IF rec = "ModelError"
           THEN Moves("async", "done", Raise(Err("ModelError", "recovery", {})),
                      trace["async"], st1, call_kwargs["async"])
           ELSE \E q \in Answers(st1, "reparse", ReparseAnswers) :
                  Moves("async", "done", ParseRecovery(rec, q),
                        Append(trace["async"], "reparse"),
                        [st1 EXCEPT !["reparse"] = q], call_kwargs["async"])
    /\ UNCHANGED <<cfg, req, prepared, llmChain, call_args, callerList>>

\* The caller invokes both decorated functions again with the same
\* arguments, the same callbacks list object included; the collaborators
\* answer anew.
Reinvoke ==
    /\ \A m \in Modes : pc[m] = "done"
    /\ \A m \in Modes : Len(callerList[m]) < MaxCallbacks
    /\ stub' = NoStub
    /\ pc' = [m \in Modes |-> "ready"]
    /\ prepared' = [m \in Modes |-> "pending"]
    /\ llmChain' = [m \in Modes |-> NoChain]
    /\ call_args' = [m \in Modes |-> NoCallArgs]
    /\ call_kwargs' = [m \in Modes |-> NoKwargs]
    /\ trace' = [m \in Modes |-> << >>]
    /\ out' = [m \in Modes |-> NoOut]
    /\ UNCHANGED <<cfg, req, callerList>>

Next ==
    \/ wrapper
    \/ async_wrapper
    \/ async_chain_returns
    \/ async_recovery_returns
    \/ Reinvoke

\* ------------------------------------------------- decorations and calls
\* prompt_type is None (or falsy).
NoPromptType == [truthy |-> FALSE, capture_stream |-> "None", llm_selector |-> "None"]

\* llm_prompt's defaults (lines 29-43) with prompt_type None, on a template
\* with one input, with no llm_selector and no default_streaming_llm in the
\* global settings.
DefaultCfg ==
    [retry_on_output_parsing_error |-> TRUE, llm |-> "None", capture_stream |-> "None",
     prompt_type |-> NoPromptType, output_parser |-> "plain", stop_tokens |-> "None",
     llm_selector_rule_key |-> "None",
     input_variables |-> {InputNames[1]}, default_values |-> {},
     global_llm_selector |-> "None", default_streaming_llm |-> "None"]

\* A positional argument: an object with attributes, or a value without
\* __dict__.
Obj(attrs) == [has_dict |-> TRUE, attrs |-> attrs]
Scalar == [has_dict |-> FALSE, attrs |-> {}]
Objects == {Scalar} \cup {Obj(A) : A \in SUBSET Inputs}

\* The positional argument lists: empty, any single argument, and longer
\* ones of objects with every or no attribute.
ArgLists ==
    {<< >>} \cup {<<o>> : o \in Objects}
    \cup UNION {[1..n -> {Scalar, Obj(Inputs)}] : n \in 2..MaxPositional}

\* A keyword is passed unless its value is "absent".
WithKw(d, k, v) == IF v = "absent" THEN d ELSE Put(d, k, v)
\* The keywords of a call passing the names of G with values of the call.
Keywords(G) == [k \in G |-> "kw"]

Req(args, kwargs, sc) == [args |-> args, kwargs |-> kwargs, in_streaming_context |-> sc]

\* Decorations that differ in the retry setting, the parser and the
\* capture setting.
RetryCfgs ==
    {[DefaultCfg EXCEPT !.retry_on_output_parsing_error = r,
                        !.output_parser = op, !.capture_stream = cs] :
        r \in BOOLEAN, op \in {"none", "plain", "functions"}, cs \in {"None", "True"}}

\* Calls of them: the input by keyword, with or without a functions list
\* (empty or not) and a callbacks list, with no or several positional
\* arguments.
RetryReqs ==
    {Req(a, WithKw(WithKw(Keywords({InputNames[1]}), "functions", f), "callbacks", cb), sc) :
        a \in {al \in ArgLists : Len(al) # 1},
        f \in {"absent", "empty", "list"}, cb \in {"absent", "list"}, sc \in BOOLEAN}

Init == InitWith(RetryCfgs, RetryReqs)
Spec == Init /\ [][Next]_vars

\* The templates: some plain inputs, with defaults for some of them, and
\* possibly the format-instructions slot or the memory key.
Templates ==
    {[input_variables |-> G \cup S, default_values |-> D] :
        G \in (SUBSET Inputs) \ {{}},
        S \in {{}, {FormatInstructionsKey}, {MemoryKey}},
        D \in SUBSET Inputs} 

\* Decorations of every template (with no parser), and the default one.
ArgsCfgs ==
    {DefaultCfg} \cup
    {[DefaultCfg EXCEPT !.output_parser = "none",
                        !.input_variables = t.input_variables,
                        !.default_values = t.default_values] :
        t \in {u \in Templates : u.default_values \subseteq u.input_variables}}

\* Calls with every positional argument list and every set of plain
\* keywords, "x" being no input of any template and function_call a
\* keyword the chain understands, with or without a memory.
ArgsReqs ==
    {Req(a, WithKw(Keywords(G), "memory", mem), FALSE) :
        a \in ArgLists, G \in SUBSET (Inputs \cup {"x", "function_call"}),
        mem \in {"absent", "memory"}}

InitArgs == InitWith(ArgsCfgs, ArgsReqs)
SpecArgs == InitArgs /\ [][Next]_vars

\* Decorations with and without a fixed model, with every capture setting.
ReservedCfgs ==
    {[DefaultCfg EXCEPT !.llm = l, !.capture_stream = cs] :
        l \in {"None", "llm"}, cs \in {"None", "True", "False"}}

\* The keywords of a call that passes the template's input and the
\* reserved keywords of r that are not "absent".
ReservedKeywords(r) ==
    LET Add(d, k) == WithKw(d, k, r[k])
    IN Add(Add(Add(Add(Add(Add(Add(Add(Keywords({InputNames[1]}),
         "x"), "capture_stream"), "llm_selector_rule_key"), "callbacks"),
         "memory"), "functions"), "stop"), "function_call")

\* Calls with every combination of reserved keywords and values, with and
\* without the unexpected keyword "x", with no or too many positional
\* arguments.
ReservedReqs ==
    {Req(a, ReservedKeywords(r), sc) :
        a \in {al \in ArgLists : Len(al) # 1},
        r \in [x : {"absent", "kw"},
               capture_stream : {"absent", "True", "False", "yes"},
               llm_selector_rule_key : {"absent", "None", "call_rule"},
               callbacks : {"absent", "list"},
               memory : {"absent", "memory"},
               functions : {"absent", "empty", "list"},
               stop : {"absent", "stop_kw"},
               function_call : {"absent", "auto"}],
        sc \in BOOLEAN}

InitReserved == InitWith(ReservedCfgs, ReservedReqs)
SpecReserved == InitReserved /\ [][Next]_vars

\* A prompt type with a capture setting and possibly its own selector.
PromptType(cs, sel) == [truthy |-> TRUE, capture_stream |-> cs, llm_selector |-> sel]

\* Decorations with no fixed model: every capture setting, with and without
\* a prompt type, a selector of the prompt type or of the global settings,
\* a default streaming model and a rule key.
CaptureCfgs ==
    {[DefaultCfg EXCEPT !.capture_stream = cs, !.prompt_type = pt,
                        !.global_llm_selector = gs, !.default_streaming_llm = ds,
                        !.llm_selector_rule_key = rk] :
        cs \in {"None", "True", "False"},
        pt \in {NoPromptType} \cup
               {PromptType(c, sel) : c \in {"None", "True"},
                                     sel \in {"None", "type_selector"}},
        gs \in {"None", "global_selector"},
        ds \in {"None", "streaming_llm"},
        rk \in {"None", "deco_rule"}}

\* Calls of them inside and outside a streaming scope, with or without the
\* per-call capture_stream, rule key and callbacks.
CaptureReqs ==
    {Req(<< >>,
         WithKw(WithKw(WithKw(Keywords({InputNames[1]}), "capture_stream", cs),
                       "llm_selector_rule_key", rk), "callbacks", cb), sc) :
        cs \in {"absent", "True", "False"}, rk \in {"absent", "call_rule"},
        cb \in {"absent", "list"}, sc \in BOOLEAN}

InitCapture == InitWith(CaptureCfgs, CaptureReqs)
SpecCapture == InitCapture /\ [][Next]_vars

\* Decorations of every template, with and without a fixed model.
ObjectCfgs ==
    ArgsCfgs \cup {[c EXCEPT !.llm = "llm"] : c \in ArgsCfgs}

\* Calls with one positional argument, an object with some attributes or a
\* value without __dict__, and every set of declared inputs as keywords.
ObjectReqs ==
    {Req(<<o>>, Keywords(G), FALSE) : o \in Objects, G \in SUBSET Inputs}

InitObject == InitWith(ObjectCfgs, ObjectReqs)
SpecObject == InitObject /\ [][Next]_vars

\* ------------------------------------------------------------ properties
Done(m) == pc[m] = "done"
\* How often a collaborator was called in a run.
Count(tr, name) == Cardinality({i \in 1..Len(tr) : tr[i] = name})
Called(m, name) == Count(trace[m], name) > 0
\* The text the output parser was given first: the function call's
\* arguments for the native function-calling parser, else the chain's text.
ParsedText ==
    IF cfg.output_parser = "functions" THEN "arguments" ELSE ChainResponse(stub["chain"]).text
\* The recovery path was entered: one of its collaborators was called.
EnteredRecovery(m) ==
    Called(m, "render") \/ Called(m, "format_instructions") \/ Called(m, "recovery")

\* C1 as stated: in every finished invocation with retry enabled the chain
\* executor was called exactly once and the recovery completion at most
\* once, and a second parse failure propagates with no further recovery.
C1_ChainExactlyOnce ==
    \A m \in Modes :
        (cfg.retry_on_output_parsing_error /\ Done(m)) =>
            /\ Count(trace[m], "chain") = 1
            /\ Count(trace[m], "recovery") <= 1
            /\ (Called(m, "reparse") /\ stub["reparse"] # "ok") =>
                  /\ out[m] = Raise(ParseError(stub["reparse"], "reparse", stub["recovery"]))
                  /\ Count(trace[m], "recovery") = 1

\* C1 amended: with retry enabled the chain executor is called at most once
\* and the recovery completion at most once in every invocation; the chain
\* executor is called exactly once in every finished invocation whose
\* argument assembly succeeded; and a second parse failure propagates to
\* the caller as it was raised, after exactly one recovery completion.
C1_ChainOnceAfterAssembly ==
    \A m \in Modes :
        cfg.retry_on_output_parsing_error =>
            /\ Count(trace[m], "chain") <= 1
            /\ Count(trace[m], "recovery") <= 1
            /\ (Done(m) /\ prepared[m] = "ok") => Count(trace[m], "chain") = 1
            /\ (Done(m) /\ prepared[m] = "failed") => trace[m] = << >>
            /\ (Done(m) /\ Called(m, "reparse") /\ stub["reparse"] # "ok") =>
                  /\ out[m] = Raise(ParseError(stub["reparse"], "reparse", stub["recovery"]))
                  /\ Count(trace[m], "recovery") = 1
                  /\ Count(trace[m], "reparse") = 1

C1_Witness ==
    \E m \in Modes :
        /\ cfg.retry_on_output_parsing_error /\ Done(m)
        /\ Called(m, "reparse") /\ stub["reparse"] = "WithOriginal"
        /\ out[m].status = "raise"
        /\ Count(trace[m], "recovery") = 1

\* C2: with retry disabled, no invocation calls a collaborator of the
\* recovery path or builds the recovery arguments, and every parse error,
\* with or without original text, is what the finished invocation raises,
\* right after the parser call.
C2_NoRecoveryWhenDisabled ==
    \A m \in Modes :
        ~cfg.retry_on_output_parsing_error =>
            /\ ~EnteredRecovery(m)
            /\ ~Called(m, "reparse")
            /\ call_kwargs[m] = NoKwargs
            /\ (Done(m) /\ Called(m, "parse") /\ stub["parse"] # "ok") =>
                  /\ out[m] = Raise(ParseError(stub["parse"], "parse", ParsedText))
                  /\ trace[m] = <<"chain", "parse">>

C2_Witness ==
    \E m \in Modes :
        /\ ~cfg.retry_on_output_parsing_error /\ Done(m)
        /\ Called(m, "parse") /\ stub["parse"] = "WithOriginalNeedsPrompt"
        /\ out[m].status = "raise"

\* C3: whatever the retry setting, the recovery path is entered only after
\* the parser raised a parse error with original text; a parse error
\* without original text and a failure of the chain executor are what the
\* finished invocation raises, unchanged, with no recovery call made.
C3_OnlyWithOriginalRetries ==
    \A m \in Modes :
        /\ EnteredRecovery(m) =>
              /\ Called(m, "parse")
              /\ stub["parse"] \in {"WithOriginal", "WithOriginalNeedsPrompt"}
        /\ (Done(m) /\ Called(m, "parse") /\ stub["parse"] = "OutputParserException") =>
              /\ out[m] = Raise(ParseError("OutputParserException", "parse", ParsedText))
              /\ trace[m] = <<"chain", "parse">>
        /\ (Done(m) /\ Called(m, "chain") /\ stub["chain"] = "ModelError") =>
              /\ out[m] = Raise(Err("ModelError", "chain", {}))
              /\ trace[m] = <<"chain">>

C3_Witness ==
    \E m \in Modes :
        /\ cfg.retry_on_output_parsing_error /\ Done(m)
        /\ Called(m, "parse") /\ stub["parse"] = "OutputParserException"
        /\ out[m].status = "raise"

\* C4: once both wrappers have finished an invocation with the same
\* decoration, arguments and collaborator answers, they have returned the
\* same value or raised the same error, after the same sequence of
\* collaborator calls and with the same recovery arguments.
C4_SyncAsyncSameOutcome ==
    (\A m \in Modes : Done(m)) =>
        /\ out["sync"] = out["async"]
        /\ trace["sync"] = trace["async"]
        /\ call_kwargs["sync"] = call_kwargs["async"]
        /\ prepared["sync"] = prepared["async"]

C4_Witness ==
    /\ \A m \in Modes : Done(m)
    /\ out["sync"].status = "return"
    /\ out["async"].type = "OutputWithFunctionCall"
    /\ out["async"].function_async = "_function"

\* ------------------------------------------------ argument assembly claims
\* The reserved keyword names.
Reserved ==
    {"capture_stream", "callbacks", "memory", "functions", "llm_selector_rule_key", "stop"}
\* The keywords the call supplies.
SuppliedKeys == DOMAIN req.kwargs
\* The supplied keywords that are neither declared inputs nor reserved.
Offending == SuppliedKeys \ (cfg.input_variables \cup Reserved)
\* Those of them the validation does not accept either.
Unsupported == Offending \ {"function_call"}
\* The call passes capture_stream although the closure's setting is no bool.
CaptureKeywordRejected(m) ==
    Has(req.kwargs, "capture_stream") /\ ~IsBool(DecoCaptureStream(cfg, IsAsync(m)))
\* A per-call rule key with a falsy value.
FalsyRuleKey ==
    IF Has(req.kwargs, "llm_selector_rule_key")
       /\ ~Truthy(req.kwargs["llm_selector_rule_key"])
      THEN {"llm_selector_rule_key"} ELSE {}
\* The declared inputs a call leaves to be found: not supplied, without a
\* default, and not exempt.
MissingRequired ==
    ((cfg.input_variables \ cfg.default_values) \ SuppliedKeys)
        \ ({FormatInstructionsKey}
           \cup (IF Has(req.kwargs, "memory") THEN {MemoryKey} ELSE {}))

\* C5 as stated: with a model fixed at decoration time, a finished call
\* with no positional argument and exactly the inputs without default as
\* keywords has completed argument assembly, built the chain with the fixed
\* model and no selector, and invoked it.
C5_FixedModelUsed ==
    \A m \in Modes :
        (Truthy(cfg.llm) /\ Done(m) /\ Len(req.args) = 0
         /\ SuppliedKeys = cfg.input_variables \ cfg.default_values) =>
            /\ prepared[m] = "ok"
            /\ llmChain[m].llm = cfg.llm
            /\ llmChain[m].llm_selector = "None"
            /\ Called(m, "chain")

\* C6 as stated: a finished call that supplied a keyword neither declared
\* nor reserved has failed with UnexpectedInput listing exactly those keys.
C6_UnexpectedAlwaysReported ==
    \A m \in Modes :
        (Done(m) /\ Offending # {}) =>
            out[m] = Raise(Err("UnexpectedInput", "unexpected_inputs", Offending))

\* C6 amended: a finished call that supplied a keyword that is neither a
\* declared input, nor reserved, nor function_call has failed in argument
\* assembly, before any collaborator was called: with InvalidArguments when
\* it has more than one positional argument or fails the capture_stream
\* check, else with UnboundLocalError when a model is fixed, else with
\* UnexpectedInput listing exactly those keys and a falsy
\* llm_selector_rule_key.
C6_UnexpectedNeverAssembles ==
    \A m \in Modes :
        (Done(m) /\ Unsupported # {}) =>
            /\ prepared[m] = "failed"
            /\ trace[m] = << >>
            /\ out[m].status = "raise"
            /\ IF Len(req.args) > 1 \/ CaptureKeywordRejected(m)
                 THEN out[m].error.kind = "InvalidArguments"
               ELSE IF Truthy(cfg.llm)
                 THEN out[m].error.kind = "UnboundLocalError"
               ELSE out[m].error =
                      Err("UnexpectedInput", "unexpected_inputs",
                          Unsupported \cup FalsyRuleKey)

C6_Witness ==
    \E m \in Modes :
        /\ Done(m)
        /\ Unsupported = {"x"}
        /\ "function_call" \in SuppliedKeys
        /\ cfg.input_variables \subseteq SuppliedKeys
        /\ cfg.default_values # {}
        /\ out[m] = Raise(Err("UnexpectedInput", "unexpected_inputs", {"x"}))

\* C7 as stated: a finished call with no positional argument and exactly
\* the inputs without default as keywords has completed argument assembly;
\* a finished call with declared inputs only as keywords, no positional
\* object and a required input left out has failed with MissingInput naming
\* exactly the inputs left out.
C7_ExactKeywordsAssemble ==
    \A m \in Modes :
        Done(m) =>
            /\ (Len(req.args) = 0
                /\ SuppliedKeys = cfg.input_variables \ cfg.default_values)
                  => prepared[m] = "ok"
            /\ (Len(req.args) <= 1 /\ ~HasInputSource(req.args)
                /\ (SuppliedKeys \ {"memory"}) \subseteq cfg.input_variables
                /\ MissingRequired # {})
                  => /\ out[m].status = "raise"
                     /\ out[m].error.kind = "MissingInput"
                     /\ out[m].error.keys = MissingRequired

\* C8: a finished call with two or more positional arguments has failed
\* with InvalidArguments, with no chain built, no collaborator called and
\* the caller's callbacks list untouched.
C8_TwoPositionalRejected ==
    \A m \in Modes :
        (Done(m) /\ Len(req.args) >= 2) =>
            /\ out[m].status = "raise"
            /\ out[m].error.kind = "InvalidArguments"
            /\ prepared[m] = "failed"
            /\ llmChain[m] = NoChain
            /\ trace[m] = << >>
            /\ callerList[m] = InitialCallerList

C8_Witness ==
    \E m \in Modes :
        /\ Done(m)
        /\ Len(req.args) = 2 /\ req.args[1].has_dict
        /\ SuppliedKeys = {InputNames[1]}
        /\ out[m] = Raise(Err("InvalidArguments", "positional", {}))

\* C9 as stated: a finished call that passed capture_stream has failed with
\* InvalidArguments when the value passed is no boolean, and has not failed
\* the capture_stream check when it is one.
C9_CaptureStreamValueChecked ==
    \A m \in Modes :
        (Done(m) /\ Has(req.kwargs, "capture_stream")) =>
            IF IsBool(req.kwargs["capture_stream"])
              THEN out[m].error # Err("InvalidArguments", "capture_stream", {})
              ELSE /\ out[m].status = "raise"
                   /\ out[m].error.kind = "InvalidArguments"

\* C10 as stated: no finished call has failed with UnexpectedInput on
\* account of a reserved keyword: such an error lists no reserved name, and
\* a call whose keywords are all declared or reserved does not raise it.
C10_ReservedNeverUnexpected ==
    \A m \in Modes :
        (Done(m) /\ out[m].error.kind = "UnexpectedInput") =>
            /\ out[m].error.keys \cap Reserved = {}
            /\ Offending # {}

\* ------------------------------------------------------- capture claims
\* The capture setting of the decoration before the downgrade for
\* functions that are not asynchronous.
DecorationCapture ==
    IF cfg.prompt_type.truthy /\ cfg.capture_stream = "None"
      THEN cfg.prompt_type.capture_stream ELSE cfg.capture_stream
\* Capture is requested by the decoration or by the call.
CaptureRequested ==
    Truthy(DecorationCapture) \/ Truthy(Get(req.kwargs, "capture_stream"))
\* The streaming callback is among the callbacks of a list.
HasStreamingCallback(cbs) == \E i \in 1..Len(cbs) : cbs[i] = "StreamingContextCallback"
\* prepare_call_args has run in mode m.
Assembled(m) == prepared[m] # "pending"

\* C11: when capture is requested by the decoration or by the call and no
\* streaming scope is active, argument assembly fails exactly when the same
\* call fails inside a scope, every chain built is bound with capture off,
\* and no streaming callback is among the callbacks passed to the chain or
\* in the caller's list.
C11_NoScopeNoCapture ==
    \A m \in Modes :
        (CaptureRequested /\ ~req.in_streaming_context /\ Assembled(m)) =>
            /\ (prepared[m] = "failed") =
                  (prepare_call_args(cfg, IsAsync(m),
                                     [req EXCEPT !.in_streaming_context = TRUE],
                                     InitialCallerList).err # NoErr)
            /\ llmChain[m] # NoChain => ~Truthy(llmChain[m].capture_stream)
            /\ ~HasStreamingCallback(call_args[m].callbacks)
            /\ ~HasStreamingCallback(callerList[m])

C11_Witness ==
    /\ ~req.in_streaming_context
    /\ Truthy(DecorationCapture)
    /\ Get(req.kwargs, "capture_stream") = "True"
    /\ Has(req.kwargs, "callbacks")
    /\ Done("async") /\ out["async"].status = "return"
    /\ llmChain["async"].capture_stream = "False"
    /\ call_args["async"].callbacks = InitialCallerList

\* C12 as stated: for the function that is not asynchronous, whatever the
\* decoration and the call request and whether or not a streaming scope is
\* active, a capture request of the decoration does not make argument
\* assembly fail, every chain built is bound with capture off, and no
\* streaming callback is among the callbacks passed to the chain or in the
\* caller's list.
C12_SyncNeverCaptures ==
    Assembled("sync") =>
        /\ Truthy(DecorationCapture) =>
              out["sync"].error # Err("InvalidArguments", "capture_stream", {})
        /\ llmChain["sync"] # NoChain => ~Truthy(llmChain["sync"].capture_stream)
        /\ ~HasStreamingCallback(call_args["sync"].callbacks)
        /\ ~HasStreamingCallback(callerList["sync"])

\* ---------------------------------------------------- recovery claims
\* The parser raised a parse error with original text on the chain's output.
FirstParseFailure(m) ==
    Called(m, "parse") /\ stub["parse"] \in {"WithOriginal", "WithOriginalNeedsPrompt"}
\* Its needs-original-prompt flag.
NeedsOriginalPrompt == stub["parse"] = "WithOriginalNeedsPrompt"

\* C13 as stated: whenever the recovery arguments are built, they hold the
\* original unparseable text and the parser's format instructions; the
\* original prompt was rendered exactly when the parse failure's flag is
\* set, and then with the keys of this call's input mapping, and is the
\* original prompt part; with the flag unset that part is empty.
C13_RecoveryPromptParts ==
    \A m \in Modes :
        call_kwargs[m].built =>
            /\ FirstParseFailure(m)
            /\ call_kwargs[m].original = ParsedText
            /\ call_kwargs[m].format_instructions = stub["format_instructions"]
            /\ Truthy(call_kwargs[m].format_instructions)
            /\ Called(m, "render") = NeedsOriginalPrompt
            /\ IF NeedsOriginalPrompt
                 THEN /\ call_kwargs[m].original_prompt = stub["render"]
                      /\ call_kwargs[m].format_keywords = DOMAIN call_args[m].inputs
                 ELSE /\ call_kwargs[m].original_prompt = ""
                      /\ call_kwargs[m].format_keywords = {}

\* C20: a finished invocation whose parser supplied no format instructions
\* on the retry path has raised the configuration error of
\* get_retry_parse_call_args, which is no parse error, has built no
\* recovery arguments, and has called neither the recovery completion nor
\* the parser again.
C20_NoFormatInstructionsFatal ==
    \A m \in Modes :
        (Done(m) /\ Called(m, "format_instructions")
         /\ stub["format_instructions"] \in {"None", ""}) =>
            /\ out[m] = Raise(Err("Exception", "get_format_instructions", {}))
            /\ ~IsOutputParserException(out[m].error)
            /\ ~Called(m, "recovery")
            /\ ~Called(m, "reparse")
            /\ ~call_kwargs[m].built
            /\ trace[m][Len(trace[m])] = "format_instructions"

C20_Witness ==
    \E m \in Modes :
        /\ Done(m) /\ cfg.retry_on_output_parsing_error
        /\ stub["parse"] = "WithOriginal"
        /\ stub["format_instructions"] = ""
        /\ trace[m] = <<"chain", "parse", "format_instructions">>
        /\ out[m].error.kind = "Exception"

\* --------------------------------------------------- packaging claims
\* The invocation of mode m returned a Function-Call Result.
ReturnedFunctionCall(m) == Done(m) /\ out[m].type = "OutputWithFunctionCall"
\* Both callable slots of the result are set.
BothSlots(m) == out[m].function # "None" /\ out[m].function_async # "None"
\* The function reference of the chain's result_data.
Reference == ChainResponse(stub["chain"]).function
\* The chain reported a function call and result_data reaches the
\* packaging with it.
Packaged(m) ==
    /\ Done(m) /\ Called(m, "chain")
    /\ ChainResponse(stub["chain"]).fci = "call"
    /\ cfg.output_parser # "functions"

\* C14 as stated: no Function-Call Result returned has both callable
\* slots set.
C14_AtMostOneSlot ==
    \A m \in Modes : ReturnedFunctionCall(m) => ~BothSlots(m)

\* C14 amended: a Function-Call Result returned has both callable slots
\* set exactly when the chain reported the call of a tool-shaped
\* reference; for every other reference at most one slot is set.
C14_BothSlotsOnlyForTools ==
    \A m \in Modes : ReturnedFunctionCall(m) => (BothSlots(m) = (Reference = "tool"))

C14_Witness ==
    \E m \in Modes :
        /\ ReturnedFunctionCall(m)
        /\ Reference = "tool"
        /\ out[m].function = "_sync_function"
        /\ out[m].function_async = "_async_function"

\* C15: when the chain reported the call of a plain callable, the
\* invocation returned a Function-Call Result with the synchronous slot
\* holding a synchronous callable, or the asynchronous slot holding an
\* asynchronous one, and the other slot unset; when the reference is
\* neither tool-shaped nor callable, the invocation raised the packaging's
\* invalid-function-reference error and returned nothing.
C15_MatchingSlotOrInvalidReference ==
    \A m \in Modes :
        Packaged(m) =>
            /\ Reference = "sync" =>
                  /\ ReturnedFunctionCall(m)
                  /\ out[m].function = "_function"
                  /\ out[m].function_async = "None"
            /\ Reference = "async" =>
                  /\ ReturnedFunctionCall(m)
                  /\ out[m].function_async = "_function"
                  /\ out[m].function = "None"
            /\ Reference = "other" =>
                  /\ out[m] = Raise(Err("TypeError", "generate_output", {"function"}))
                  /\ out[m].output = NoValue

C15_Witness ==
    \E m \in Modes :
        /\ Packaged(m)
        /\ Reference = "other"
        /\ out[m].status = "raise"
        /\ out[m].error.kind = "TypeError"

\* ------------------------------------------------------ binding claims
\* prepare_call_args has built a chain in mode m.
Built(m) == llmChain[m] # NoChain
\* The template's output parser is of the native function-calling kind.
NativeParser == cfg.output_parser = "functions"
\* With the caller's functions bound, function_call is in the chain's
\* inputs only as the caller passed it.
NoForcedFunctionCall(m) ==
    prepared[m] = "ok" =>
        Get(call_args[m].inputs, "function_call") = Get(req.kwargs, "function_call")

\* C16 as stated: every chain built is of the function-call variant when
\* the call passes the functions keyword or the parser is native, and of
\* the plain variant otherwise; a call that passes functions has them
\* bound, with no function_call forced into the request.
C16_VariantWheneverFunctionsPassed ==
    \A m \in Modes :
        Built(m) =>
            /\ llmChain[m].variant =
                  IF Has(req.kwargs, "functions") \/ NativeParser
                    THEN "functions" ELSE "plain"
            /\ Has(req.kwargs, "functions") =>
                  /\ llmChain[m].functions = "caller"
                  /\ NoForcedFunctionCall(m)

\* C16 amended: every chain built is of the function-call variant when
\* the call passes a functions list that is not empty or the parser is
\* native, and of the plain variant otherwise; a call that passes such a
\* list has it bound, with no function_call forced into the request, also
\* when the parser is native.
C16_VariantForNonEmptyFunctions ==
    \A m \in Modes :
        Built(m) =>
            /\ llmChain[m].variant =
                  IF Truthy(Get(req.kwargs, "functions")) \/ NativeParser
                    THEN "functions" ELSE "plain"
            /\ Truthy(Get(req.kwargs, "functions")) =>
                  /\ llmChain[m].functions = "caller"
                  /\ NoForcedFunctionCall(m)

C16_Witness ==
    \E m \in Modes :
        /\ Done(m) /\ prepared[m] = "ok"
        /\ Get(req.kwargs, "functions") = "list"
        /\ NativeParser
        /\ llmChain[m].variant = "functions"
        /\ llmChain[m].functions = "caller"
        /\ ~Has(call_args[m].inputs, "function_call")

\* The text under the chain's output key.
ChainText == ChainResponse(stub["chain"]).text

\* C17 as stated: an invocation that returned a plain value without
\* entering the recovery path returned what the output parser made of the
\* chain's output text when a parser is configured, whatever the text, and
\* the raw text when none is.
C17_ParsedWheneverParserConfigured ==
    \A m \in Modes :
        (Done(m) /\ out[m].status = "return" /\ out[m].type = "plain"
         /\ ~NativeParser /\ ~EnteredRecovery(m)) =>
            out[m].output = IF cfg.output_parser = "plain"
                              THEN Parsed("chain", ChainText)
                              ELSE Raw(ChainText)

\* The selector of the decoration: the prompt type's, else the global one.
ConfiguredSelector ==
    IF cfg.prompt_type.truthy /\ Truthy(cfg.prompt_type.llm_selector)
      THEN cfg.prompt_type.llm_selector ELSE cfg.global_llm_selector
\* The default streaming model if one is designated, else the general one.
PreferredStreamingModel ==
    IF Truthy(cfg.default_streaming_llm) THEN cfg.default_streaming_llm ELSE "default_llm"

\* C18 as stated: with no model fixed, every chain built has the
\* decoration's selector, the per-call rule key if the call passes one and
\* the decoration's rule key otherwise, and, whenever it is bound with
\* capture on, the default streaming model if one is designated.
C18_StreamingModelWheneverCapturing ==
    \A m \in Modes :
        (~Truthy(cfg.llm) /\ Built(m)) =>
            /\ llmChain[m].llm_selector = ConfiguredSelector
            /\ llmChain[m].llm_selector_rule_key =
                  IF Has(req.kwargs, "llm_selector_rule_key")
                    THEN req.kwargs["llm_selector_rule_key"]
                    ELSE cfg.llm_selector_rule_key
            /\ Truthy(llmChain[m].capture_stream) =>
                  llmChain[m].llm = PreferredStreamingModel

\* C18 amended: with no model fixed, every chain built has the
\* decoration's selector, the per-call rule key if the call passes a truthy
\* one and the decoration's rule key otherwise; it is bound with the
\* default streaming model exactly when it is bound with capture on, no
\* selector is configured and a default streaming model is designated, and
\* with the general default model in every other case.
C18_StreamingModelOnlyWithoutSelector ==
    \A m \in Modes :
        (~Truthy(cfg.llm) /\ Built(m)) =>
            /\ llmChain[m].llm_selector = ConfiguredSelector
            /\ llmChain[m].llm_selector_rule_key =
                  IF Truthy(Get(req.kwargs, "llm_selector_rule_key"))
                    THEN req.kwargs["llm_selector_rule_key"]
                    ELSE cfg.llm_selector_rule_key
            /\ llmChain[m].llm =
                  IF Truthy(llmChain[m].capture_stream) /\ ~Truthy(ConfiguredSelector)
                    THEN PreferredStreamingModel ELSE "default_llm"

C18_Witness ==
    /\ Done("async") /\ prepared["async"] = "ok"
    /\ cfg.llm_selector_rule_key = "deco_rule"
    /\ llmChain["async"].llm_selector_rule_key = "call_rule"
    /\ llmChain["async"].capture_stream = "True"
    /\ llmChain["async"].llm_selector = "None"
    /\ llmChain["async"].llm = "streaming_llm"

\* ------------------------------------------------------- error claims
\* The usage errors of argument assembly.
UsageErrors == {"InvalidArguments", "UnexpectedInput", "MissingInput"}

\* C19: an invocation whose argument assembly failed is finished at once,
\* has raised the assembly's error, which is no parse error, has called no
\* collaborator and built no recovery arguments; and a finished invocation
\* that raised a usage error is one whose argument assembly failed.
C19_UsageErrorsBeforeAnyCall ==
    \A m \in Modes :
        /\ prepared[m] = "failed" =>
              /\ Done(m)
              /\ out[m].status = "raise"
              /\ ~IsOutputParserException(out[m].error)
              /\ trace[m] = << >>
              /\ call_kwargs[m] = NoKwargs
        /\ (Done(m) /\ out[m].error.kind \in UsageErrors) =>
              /\ prepared[m] = "failed"
              /\ ~Called(m, "chain")
              /\ ~EnteredRecovery(m)

C19_Witness ==
    \E m \in Modes :
        /\ cfg.retry_on_output_parsing_error
        /\ Done(m) /\ prepared[m] = "failed"
        /\ out[m].error.kind = "MissingInput"
        /\ out[m].error.keys # {}
        /\ trace[m] = << >>

\* ------------------------------------------------- input source claims
\* The declared inputs that are bound by the precedence: all but the
\* format-instructions slot and the key of the memory passed.
BoundInputs ==
    cfg.input_variables
        \ ({FormatInstructionsKey}
           \cup (IF Has(req.kwargs, "memory") THEN {MemoryKey} ELSE {}))
\* The attributes of the sole positional object.
SourceAttrs == IF HasInputSource(req.args) THEN req.args[1].attrs ELSE {}
\* The inputs left to the positional object that it does not have.
AbsentAttrs == MissingRequired \ SourceAttrs

\* C21 as stated: after a successful argument assembly every declared
\* input is bound to the keyword's value if the call passed it, else to the
\* template's default, else to the attribute of the sole positional object,
\* which is read for no other input; and a finished call with a sole
\* positional object, no undeclared keyword, and an input left to the
\* object that the object lacks has failed with MissingInput naming one
\* such input.
C21_InputPrecedence ==
    \A m \in Modes :
        Done(m) =>
            /\ prepared[m] = "ok" =>
                  \A k \in BoundInputs :
                      /\ Has(call_args[m].inputs, k)
                      /\ call_args[m].inputs[k] =
                            IF k \in SuppliedKeys THEN req.kwargs[k]
                            ELSE IF k \in cfg.default_values THEN "default"
                            ELSE "attr"
                      /\ call_args[m].inputs[k] = "attr" => k \in SourceAttrs
            /\ (HasInputSource(req.args) /\ Unsupported = {} /\ AbsentAttrs # {}) =>
                  /\ out[m].status = "raise"
                  /\ out[m].error.kind = "MissingInput"
                  /\ \E k \in AbsentAttrs : out[m].error.keys = {k}

\* ------------------------------------------------------ callbacks claim
\* C22 as stated: the caller's callbacks list is never changed, and every
\* successful argument assembly of a call that passes it with capture in
\* effect hands the chain that list plus one streaming callback.
C22_CallerListUntouched ==
    \A m \in Modes :
        /\ callerList[m] = InitialCallerList
        /\ (prepared[m] = "ok" /\ Has(req.kwargs, "callbacks")
            /\ Truthy(llmChain[m].capture_stream)) =>
              call_args[m].callbacks =
                  Append(InitialCallerList, "StreamingContextCallback")

\* ------------------------------------------------------ retry result claim
\* The chain's result_data holds the function_call_info key.
CarriesFunctionCallInfo == ChainResponse(stub["chain"]).fci # "absent"

\* C23: a finished invocation that called the recovery completion and
\* returned has returned what the parser made of the recovery output, as a
\* plain value; no invocation that entered the retry path has returned a
\* Function-Call Result; and a Function-Call Result is returned only
\* without entering the retry path, after no parse failure, and from a
\* result_data that holds function_call_info.
C23_RetryReturnsPlainValue ==
    \A m \in Modes :
        Done(m) =>
            /\ (Called(m, "recovery") /\ out[m].status = "return") =>
                  out[m] = ReturnPlain(Parsed("recovery", stub["recovery"]))
            /\ EnteredRecovery(m) => out[m].type # "OutputWithFunctionCall"
            /\ out[m].type = "OutputWithFunctionCall" =>
                  /\ ~EnteredRecovery(m)
                  /\ stub["parse"] \in {"unset", "ok"}
                  /\ CarriesFunctionCallInfo

C23_Witness ==
    \E m \in Modes :
        /\ Done(m)
        /\ Get(req.kwargs, "functions") = "list"
        /\ ChainResponse(stub["chain"]).fci = "call"
        /\ Called(m, "recovery")
        /\ out[m] = ReturnPlain(Parsed("recovery", "recovered_text"))

====
